---- MODULE Spec2Model ----
(***************************************************************************)
(* A model of the spatial_hasher crate: the Spha256 engine                 *)
(* (src/src/spatial_hasher.rs), its key derivation generate_key and its    *)
(* encrypt / decrypt pair built on SHA-256 and ChaCha20-Poly1305.          *)
(*                                                                         *)
(* Bytes are the integers 0..255.  An f64 is the record of its IEEE-754    *)
(* fields; a u64 is the sequence of its eight base-256 digits, most        *)
(* significant first (TLC's integers are 32 bits wide).                *)
(*                                                                         *)
(* The two primitives of the sha2 and chacha20poly1305 crates are not      *)
(* code of this crate.  They are modelled by reduced stand-ins with the    *)
(* same interface and the same structure (a digest of 32 bytes over every  *)
(* absorbed byte; a keystream XOR followed by a 16-byte tag over key,      *)
(* nonce and ciphertext).  Whatever is settled about tag verification is   *)
(* settled relative to these stand-ins.                                    *)
(***************************************************************************)
EXTENDS Integers, Sequences, FiniteSets, TLC

(***************************************************************************)
(* Bounds of the model.                                                    *)
(***************************************************************************)
\* Longest plaintext handed to encrypt.
MaxLen == 1
\* Number of distinct 12-byte values the random source returns.
NumNonces == 2
\* Number of encrypt calls recorded in one behaviour.
MaxSealed == 2
\* Number of callers sharing the engines in the interleaved specification.
NumCallers == 2

(***************************************************************************)
(* Program constants.                                                      *)
(***************************************************************************)
\* [0u8; 12]: the nonce size, also the length decrypt requires.
NonceLen == 12
\* [0u8; 32]: the key size.
KeyLen == 32
\* The tag ChaCha20-Poly1305 appends to the ciphertext.
TagLen == 16

(***************************************************************************)
(* Bytes.                                                                  *)
(***************************************************************************)
Byte == 0..255

Pow2 == <<1, 2, 4, 8, 16, 32, 64, 128>>

BitAt(b, k) == (b \div Pow2[k + 1]) % 2

\* b with bit k (0 = least significant) inverted.
FlipBit(b, k) == IF BitAt(b, k) = 1 THEN b - Pow2[k + 1] ELSE b + Pow2[k + 1]

RECURSIVE XorFrom(_, _, _)
XorFrom(a, b, k) ==
    IF k > 7 THEN 0
    ELSE ((BitAt(a, k) + BitAt(b, k)) % 2) * Pow2[k + 1] + XorFrom(a, b, k + 1)

XorByte(a, b) == XorFrom(a, b, 0)

Reverse(s) == [i \in 1..Len(s) |-> s[Len(s) + 1 - i]]

(***************************************************************************)
(* f64 values and their bit patterns.                                      *)
(***************************************************************************)
\* An f64: sign (1 bit), exponent (11 bits), and the 52-bit mantissa as
\* its upper and lower 26 bits.
F64(s, e, mh, ml) == [sign |-> s, exponent |-> e, mant_hi |-> mh, mant_lo |-> ml]

PosZero    == F64(0, 0, 0, 0)
NegZero    == F64(1, 0, 0, 0)
One        == F64(0, 1023, 0, 0)
OnePlusUlp == F64(0, 1023, 0, 1)
Two        == F64(0, 1024, 0, 0)
Three      == F64(0, 1024, 33554432, 0)
\* 0.1 = 0x3FB999999999999A
Tenth      == F64(0, 1019, 40265318, 26843546)
NaNQuiet   == F64(0, 2047, 33554432, 0)
NaNPayload == F64(0, 2047, 33554432, 1)

\* The bit pattern of the numeric value: -0.0 taken as 0.0 and every NaN as
\* the quiet NaN.
to_bits_numeric(f) ==
    LET zero == f.exponent = 0 /\ f.mant_hi = 0 /\ f.mant_lo = 0
        nan  == f.exponent = 2047 /\ (f.mant_hi # 0 \/ f.mant_lo # 0)
        sign == IF zero \/ nan THEN 0 ELSE f.sign
        mh   == IF nan THEN 33554432 ELSE f.mant_hi
        ml   == IF nan THEN 0 ELSE f.mant_lo
    IN  << sign * 128 + f.exponent \div 16,
           (f.exponent % 16) * 16 + mh \div 4194304,
           (mh \div 16384) % 256,
           (mh \div 64) % 256,
           (mh % 64) * 4 + ml \div 16777216,
           (ml \div 65536) % 256,
           (ml \div 256) % 256,
           ml % 256 >>

\* f64::to_bits: the u64 holding the IEEE-754 bit pattern
\* sign << 63 | exponent << 52 | mantissa, as eight base-256 digits, most
\* significant first.
to_bits(f) ==
    << f.sign * 128 + f.exponent \div 16,
       (f.exponent % 16) * 16 + f.mant_hi \div 4194304,
       (f.mant_hi \div 16384) % 256,
       (f.mant_hi \div 64) % 256,
       (f.mant_hi % 64) * 4 + f.mant_lo \div 16777216,
       (f.mant_lo \div 65536) % 256,
       (f.mant_lo \div 256) % 256,
       f.mant_lo % 256 >>

\* The byte orders a build target can have.
Endians == {"little", "big"}

\* u64::to_ne_bytes: the digits in the target's byte order.
u64_to_ne_bytes(endian, bits) == IF endian = "little" THEN Reverse(bits) ELSE bits

\* u32::to_ne_bytes.
u32_to_ne_bytes(endian, n) ==
    LET be == << (n \div 16777216) % 256, (n \div 65536) % 256,
                 (n \div 256) % 256, n % 256 >>
    IN  IF endian = "little" THEN Reverse(be) ELSE be

(***************************************************************************)
(* SHA-256 (sha2 crate), reduced: the hasher state is the message absorbed *)
(* so far; the digest has 32 cells, cell i folding the absorbed bytes      *)
(* i, i + 32, i + 64, ... together with the message length.                *)
(***************************************************************************)
Sha256New == <<>>

Sha256Update(hasher, data) == hasher \o data

RECURSIVE DigestColumn(_, _, _)
DigestColumn(m, j, w) ==
    IF j > Len(m) THEN 0
    ELSE ((m[j] + 1) * w + DigestColumn(m, j + KeyLen, (w * 3) % 256)) % 256

Sha256Finalize(hasher) ==
    [i \in 1..KeyLen |-> (i + Len(hasher) + DigestColumn(hasher, i, 1)) % 256]

(***************************************************************************)
(* Spha256::generate_key.                                                  *)
(***************************************************************************)
\* The hash input without the last update call (strength).
HashInputNoStrength(endian, self) ==
    LET h0 == Sha256New
        h1 == Sha256Update(h0, u64_to_ne_bytes(endian, to_bits(self.point.x)))
        h2 == Sha256Update(h1, u64_to_ne_bytes(endian, to_bits(self.point.y)))
        h3 == Sha256Update(h2, u64_to_ne_bytes(endian, to_bits(self.point.z)))
        h4 == Sha256Update(h3, u64_to_ne_bytes(endian, to_bits(self.rotation_axis.x)))
        h5 == Sha256Update(h4, u64_to_ne_bytes(endian, to_bits(self.rotation_axis.y)))
        h6 == Sha256Update(h5, u64_to_ne_bytes(endian, to_bits(self.rotation_axis.z)))
        h7 == Sha256Update(h6, u32_to_ne_bytes(endian, self.iterations))
    IN  h7

\* The bytes generate_key feeds to the hasher, in the order of its eight
\* update calls.
HashInput(endian, self) ==
    LET h0 == Sha256New
        h1 == Sha256Update(h0, u64_to_ne_bytes(endian, to_bits(self.point.x)))
        h2 == Sha256Update(h1, u64_to_ne_bytes(endian, to_bits(self.point.y)))
        h3 == Sha256Update(h2, u64_to_ne_bytes(endian, to_bits(self.point.z)))
        h4 == Sha256Update(h3, u64_to_ne_bytes(endian, to_bits(self.rotation_axis.x)))
        h5 == Sha256Update(h4, u64_to_ne_bytes(endian, to_bits(self.rotation_axis.y)))
        h6 == Sha256Update(h5, u64_to_ne_bytes(endian, to_bits(self.rotation_axis.z)))
        h7 == Sha256Update(h6, u32_to_ne_bytes(endian, self.iterations))
        h8 == Sha256Update(h7, u64_to_ne_bytes(endian, to_bits(self.strength)))
    IN  h8

generate_key(endian, self) ==
    LET result == Sha256Finalize(HashInput(endian, self))
    IN  SubSeq(result, 1, KeyLen)

(***************************************************************************)
(* ChaCha20-Poly1305 (chacha20poly1305 crate), reduced: the ciphertext is  *)
(* the plaintext XOR a keystream of key, nonce and position; the tag has   *)
(* 16 cells over key, nonce, ciphertext and ciphertext length, each cell   *)
(* also taking a polynomial of the whole key modulo a prime, as Poly1305   *)
(* evaluates one modulo 2^130 - 5.                                         *)
(***************************************************************************)
KeystreamByte(key, nonce, j) ==
    (key[((j - 1) % KeyLen) + 1] + nonce[((j - 1) % NonceLen) + 1] + j) % 256

ApplyKeystream(key, nonce, data) ==
    [j \in 1..Len(data) |-> XorByte(data[j], KeystreamByte(key, nonce, j))]

RECURSIVE TagColumn(_, _, _)
TagColumn(ct, j, w) ==
    IF j > Len(ct) THEN 0
    ELSE ((ct[j] + 1) * w + TagColumn(ct, j + TagLen, (w * 3) % 256)) % 256

RECURSIVE KeyFold(_, _)
KeyFold(key, j) ==
    IF j > Len(key) THEN 0
    ELSE (key[j] + 1 + 31 * KeyFold(key, j + 1)) % 65521

Poly1305Tag(key, nonce, ct) ==
    [i \in 1..TagLen |->
        ( key[i] + 7 * key[i + TagLen] + (((2 * i + 1) * KeyFold(key, 1)) % 65521)
        + 5 * (IF i <= NonceLen THEN nonce[i] ELSE nonce[i - NonceLen])
        + 7 * TagColumn(ct, i, 1)
        + Len(ct) + i ) % 256]

\* Result<Vec<u8>, E>
Ok(v)  == [ok |-> TRUE,  val |-> v,    err |-> ""]
Err(e) == [ok |-> FALSE, val |-> <<>>, err |-> e]

\* Aead::encrypt: ciphertext with the tag appended.
AeadEncrypt(key, nonce, plaintext) ==
    LET ct == ApplyKeystream(key, nonce, plaintext)
    IN  ct \o Poly1305Tag(key, nonce, ct)

\* Aead::decrypt: the plaintext, or the crate's opaque aead::Error when the
\* buffer cannot hold a tag or the tag does not verify.
AeadDecrypt(key, nonce, buffer) ==
    IF Len(buffer) < TagLen THEN Err("aead::Error")
    ELSE LET ct  == SubSeq(buffer, 1, Len(buffer) - TagLen)
             tag == SubSeq(buffer, Len(buffer) - TagLen + 1, Len(buffer))
         IN  IF Poly1305Tag(key, nonce, ct) # tag THEN Err("aead::Error")
             ELSE Ok(ApplyKeystream(key, nonce, ct))

(***************************************************************************)
(* Spha256::encrypt and Spha256::decrypt.                                  *)
(***************************************************************************)
MalformedPayload     == "Ciphertext too short to contain nonce"
AuthenticationFailed == "Decryption failed"

\* encrypt as a nonce-free keystream XOR: no nonce is drawn or prepended and
\* no tag is appended.
encrypt_stream(endian, self, data, nonce_bytes) ==
    ApplyKeystream(generate_key(endian, self), [i \in 1..NonceLen |-> 0], data)

\* encrypt with the nonce appended after the ciphertext.
encrypt_nonce_last(endian, self, data, nonce_bytes) ==
    LET key        == generate_key(endian, self)
        ciphertext == AeadEncrypt(key, nonce_bytes, data)
    IN  ciphertext \o nonce_bytes

\* encrypt(&self, data), with nonce_bytes the bytes OsRng.fill_bytes wrote.
encrypt(endian, self, data, nonce_bytes) ==
    LET key        == generate_key(endian, self)
        ciphertext == AeadEncrypt(key, nonce_bytes, data)
    IN  nonce_bytes \o ciphertext

\* decrypt with the ciphertext taken from the payload's byte 12 on (the last
\* nonce byte included).
decrypt_split_off_by_one(endian, self, encrypted) ==
    IF Len(encrypted) < NonceLen THEN Err(MalformedPayload)
    ELSE LET nonce_bytes == SubSeq(encrypted, 1, NonceLen)
             ciphertext  == SubSeq(encrypted, NonceLen, Len(encrypted))
             key         == generate_key(endian, self)
             plaintext   == AeadDecrypt(key, nonce_bytes, ciphertext)
         IN  IF plaintext.ok THEN Ok(plaintext.val) ELSE Err(AuthenticationFailed)

\* decrypt that strips the tag without verifying it.
decrypt_unverified(endian, self, encrypted) ==
    IF Len(encrypted) < NonceLen THEN Err(MalformedPayload)
    ELSE LET nonce_bytes == SubSeq(encrypted, 1, NonceLen)
             ciphertext  == SubSeq(encrypted, NonceLen + 1, Len(encrypted))
             key         == generate_key(endian, self)
         IN  IF Len(ciphertext) < TagLen THEN Err(AuthenticationFailed)
             ELSE Ok(ApplyKeystream(key, nonce_bytes,
                                    SubSeq(ciphertext, 1, Len(ciphertext) - TagLen)))

\* decrypt(&self, encrypted).
decrypt(endian, self, encrypted) ==
    IF Len(encrypted) < NonceLen THEN Err(MalformedPayload)
    ELSE LET nonce_bytes == SubSeq(encrypted, 1, NonceLen)
             ciphertext  == SubSeq(encrypted, NonceLen + 1, Len(encrypted))
             key         == generate_key(endian, self)
             plaintext   == AeadDecrypt(key, nonce_bytes, ciphertext)
         IN  IF plaintext.ok THEN Ok(plaintext.val) ELSE Err(AuthenticationFailed)

(***************************************************************************)
(* Inputs of the model.                                                    *)
(***************************************************************************)
\* "Test Data", the plaintext of tests/integration_tests.rs.
Text == <<84, 101, 115, 116, 32, 68, 97, 116, 97>>

\* The plaintexts: the prefixes of Text up to MaxLen bytes, the empty one
\* included.
Msgs == {SubSeq(Text, 1, n) : n \in 0..MaxLen}

\* The 12-byte values OsRng.fill_bytes may write.
NonceVals == {[i \in 1..NonceLen |-> (k * (i + 16)) % 256] : k \in 0..(NumNonces - 1)}

Point3D(x, y, z) == [x |-> x, y |-> y, z |-> z]

RotationAxis(x, y, z) == [x |-> x, y |-> y, z |-> z]

\* Spha256::new.
new(point, rotation_axis, iterations, strength) ==
    [point |-> point, rotation_axis |-> rotation_axis,
     iterations |-> iterations, strength |-> strength]

\* The engine of the tests and the example.
BaseParams == new(Point3D(One, Two, Three), RotationAxis(PosZero, One, PosZero), 10, Tenth)

\* The same engine with point.x one ULP larger.
AltParams == new(Point3D(OnePlusUlp, Two, Three), RotationAxis(PosZero, One, PosZero), 10, Tenth)

EngineParams == {BaseParams, AltParams}

F64Vals == {PosZero, NegZero, One, OnePlusUlp, NaNQuiet, NaNPayload}

U32Vals == {0, 11, 2560, 167772160}

\* Every Parameter Set that differs from p in at most one field.
SingleFieldVariants(p) ==
    {p}
    \cup {[p EXCEPT !.point.x = v] : v \in F64Vals}
    \cup {[p EXCEPT !.point.y = v] : v \in F64Vals}
    \cup {[p EXCEPT !.point.z = v] : v \in F64Vals}
    \cup {[p EXCEPT !.rotation_axis.x = v] : v \in F64Vals}
    \cup {[p EXCEPT !.rotation_axis.y = v] : v \in F64Vals}
    \cup {[p EXCEPT !.rotation_axis.z = v] : v \in F64Vals}
    \cup {[p EXCEPT !.iterations = n] : n \in U32Vals}
    \cup {[p EXCEPT !.strength = v] : v \in F64Vals}

ParamSets == SingleFieldVariants(BaseParams)

EngineIds == {1, 2}

Prefixes(p) == {SubSeq(p, 1, n) : n \in 0..Len(p)}

\* Every sequence that differs from p in exactly one bit.
BitFlips(p) == {[p EXCEPT ![j] = FlipBit(p[j], k)] : j \in 1..Len(p), k \in 0..7}

(***************************************************************************)
(* State.                                                                  *)
(***************************************************************************)
VARIABLES
    target_endian,  \* the byte order of the build target
    engines,        \* engines[e]: the fields of Spha256 instance e
    sealed,         \* the encrypt calls that returned, in call order
    last,           \* the call that returned last (at most one record)
    calls           \* calls[c]: the call caller c is executing, with its locals

vars == <<target_endian, engines, sealed, last, calls>>

\* A caller that is not inside a call.  Inside one, drawn is what the random
\* source returned to this call and steps the statements it has executed.
IdleCall ==
    [pc |-> "idle", op |-> "", eng |-> 1, arg |-> <<>>, key |-> <<>>,
     nonce_bytes |-> <<>>, drawn |-> <<>>, ciphertext |-> <<>>,
     ret |-> Err(""), steps |-> <<>>]

Callers == 1..NumCallers

InitWith(endians, params) ==
    /\ target_endian \in endians
    /\ engines \in [EngineIds -> params]
    /\ sealed = <<>>
    /\ last = <<>>
    /\ calls = [c \in Callers |-> IdleCall]

\* Two engines, each built from either Parameter Set of EngineParams, on a
\* little-endian target.
Init == InitWith({"little"}, EngineParams)

(***************************************************************************)
(* One caller at a time: a call runs from entry to return in one step.     *)
(***************************************************************************)
\* encrypt that counts its calls in the engine's iterations field.
EncryptCounting(e, data, nonce) ==
    LET out == encrypt(target_endian, engines[e], data, nonce)
        key == generate_key(target_endian, engines[e])
    IN  /\ sealed' = Append(sealed, [eng |-> e, data |-> data, nonce |-> nonce,
                                     key |-> key, out |-> out])
        /\ last' = << [op |-> "encrypt", eng |-> e, arg |-> data,
                       src |-> 0, how |-> "", ret |-> Ok(out)] >>
        /\ engines' = [engines EXCEPT ![e].iterations = @ + 1]
        /\ UNCHANGED <<target_endian, calls>>

\* hasher.encrypt(data) on engine e, the random source writing nonce.
Encrypt(e, data, nonce) ==
    LET out == encrypt(target_endian, engines[e], data, nonce)
        key == generate_key(target_endian, engines[e])
    IN  /\ sealed' = Append(sealed, [eng |-> e, data |-> data, nonce |-> nonce,
                                     key |-> key, out |-> out])
        /\ last' = << [op |-> "encrypt", eng |-> e, arg |-> data,
                       src |-> 0, how |-> "", ret |-> Ok(out)] >>
        /\ UNCHANGED <<target_endian, engines, calls>>

\* hasher.decrypt(input) on engine e; src and how record where the caller
\* took input from: sealed[src], "intact", "truncated" or "flipped" (src = 0:
\* from nowhere).
Decrypt(e, input, src, how) ==
    /\ last' = << [op |-> "decrypt", eng |-> e, arg |-> input,
                   src |-> src, how |-> how,
                   ret |-> decrypt(target_endian, engines[e], input)] >>
    /\ UNCHANGED <<target_endian, engines, sealed, calls>>

EncryptAny ==
    /\ Len(sealed) < MaxSealed
    /\ \E e \in EngineIds, data \in Msgs, nonce \in NonceVals : Encrypt(e, data, nonce)

DecryptSealed ==
    \E e \in EngineIds, i \in 1..Len(sealed) : Decrypt(e, sealed[i].out, i, "intact")

Next == EncryptAny \/ DecryptSealed

Spec == Init /\ [][Next]_vars

(***************************************************************************)
(* Damaged payloads: one payload is sealed, then decrypt is handed the     *)
(* payload with one bit inverted, a proper prefix of it, or a short        *)
(* sequence of equal bytes.  A behaviour ends with its first damaged       *)
(* input: decrypt changes nothing a later call reads.                      *)
(***************************************************************************)
Undamaged == IF last = <<>> THEN TRUE ELSE last[1].how \in {"", "intact"}

EncryptOnce ==
    /\ Len(sealed) < 1
    /\ \E e \in EngineIds, data \in Msgs, nonce \in NonceVals : Encrypt(e, data, nonce)

DecryptFlipped ==
    /\ Undamaged
    /\ \E e \in EngineIds, i \in 1..Len(sealed) :
            \E input \in BitFlips(sealed[i].out) : Decrypt(e, input, i, "flipped")

DecryptTruncated ==
    /\ Undamaged
    /\ \E e \in EngineIds, i \in 1..Len(sealed) :
            \E input \in Prefixes(sealed[i].out) \ {sealed[i].out} :
                Decrypt(e, input, i, "truncated")

ShortInputs == {[i \in 1..n |-> b] : n \in 0..(NonceLen - 1), b \in {0, 255}}

DecryptShort ==
    /\ Undamaged
    /\ \E e \in EngineIds, input \in ShortInputs : Decrypt(e, input, 0, "short")

NextTamper == EncryptOnce \/ DecryptSealed \/ DecryptFlipped \/ DecryptTruncated \/ DecryptShort

SpecTamper == Init /\ [][NextTamper]_vars

(***************************************************************************)
(* Two engines built from any two Parameter Sets of ParamSets: one payload *)
(* is sealed under the first and opened under either.                      *)
(***************************************************************************)
InitKeys == InitWith(Endians, ParamSets)

EncryptFirst ==
    /\ Len(sealed) < 1
    /\ \E data \in Msgs, nonce \in NonceVals : Encrypt(1, data, nonce)

NextKeys == EncryptFirst \/ DecryptSealed

SpecKeys == InitKeys /\ [][NextKeys]_vars

(***************************************************************************)
(* Interleaved callers: each statement group of encrypt and decrypt is one *)
(* step of the caller executing it, and the callers' steps interleave.     *)
(* Engine 1 is the engine of the tests, engine 2 differs in point.x.       *)
(***************************************************************************)
InitSteps ==
    /\ target_endian = "little"
    /\ engines = [e \in EngineIds |-> IF e = 1 THEN BaseParams ELSE AltParams]
    /\ sealed = <<>>
    /\ last = <<>>
    /\ calls = [c \in Callers |-> IdleCall]

Did(c, step) == Append(calls[c].steps, step)

\* Caller c enters hasher.encrypt(data) on engine e.
CallEncrypt(c, e, data) ==
    /\ calls[c].pc = "idle"
    /\ calls' = [calls EXCEPT ![c] =
                    [IdleCall EXCEPT !.pc = "enc_key", !.op = "encrypt",
                                     !.eng = e, !.arg = data]]
    /\ UNCHANGED <<target_endian, engines, sealed, last>>

\* let key = self.generate_key(); let cipher = ChaCha20Poly1305::new(..);
EncryptDeriveKey(c) ==
    /\ calls[c].pc = "enc_key"
    /\ calls' = [calls EXCEPT ![c].key = generate_key(target_endian, engines[calls[c].eng]),
                              ![c].steps = Did(c, "key"),
                              ![c].pc = "enc_nonce"]
    /\ UNCHANGED <<target_endian, engines, sealed, last>>

\* A nonce buffer shared by all callers: the bytes written for c land in
\* every encrypt call that has not sealed yet.
EncryptFillNonceShared(c, nonce) ==
    /\ calls[c].pc = "enc_nonce"
    /\ calls' = [d \in Callers |->
                    IF d = c
                    THEN [calls[d] EXCEPT !.nonce_bytes = nonce, !.drawn = nonce,
                                          !.steps = Did(c, "nonce"), !.pc = "enc_seal"]
                    ELSE IF calls[d].pc = "enc_seal"
                         THEN [calls[d] EXCEPT !.nonce_bytes = nonce]
                         ELSE calls[d]]
    /\ UNCHANGED <<target_endian, engines, sealed, last>>

\* let mut nonce_bytes = [0u8; 12]; OsRng.fill_bytes(&mut nonce_bytes);
EncryptFillNonce(c, nonce) ==
    /\ calls[c].pc = "enc_nonce"
    /\ calls' = [calls EXCEPT ![c].nonce_bytes = nonce,
                              ![c].drawn = nonce,
                              ![c].steps = Did(c, "nonce"),
                              ![c].pc = "enc_seal"]
    /\ UNCHANGED <<target_endian, engines, sealed, last>>

\* let ciphertext = cipher.encrypt(nonce, data).expect("Encryption failed");
EncryptSeal(c) ==
    /\ calls[c].pc = "enc_seal"
    /\ calls' = [calls EXCEPT ![c].ciphertext =
                                  AeadEncrypt(calls[c].key, calls[c].nonce_bytes, calls[c].arg),
                              ![c].steps = Did(c, "aead"),
                              ![c].pc = "enc_ret"]
    /\ UNCHANGED <<target_endian, engines, sealed, last>>

\* encrypted = nonce_bytes ++ ciphertext; encrypted
EncryptReturn(c) ==
    /\ calls[c].pc = "enc_ret"
    /\ calls' = [calls EXCEPT ![c].ret = Ok(calls[c].nonce_bytes \o calls[c].ciphertext),
                              ![c].pc = "done"]
    /\ UNCHANGED <<target_endian, engines, sealed, last>>

\* Caller c enters hasher.decrypt(input) on engine e.
CallDecrypt(c, e, input) ==
    /\ calls[c].pc = "idle"
    /\ calls' = [calls EXCEPT ![c] =
                    [IdleCall EXCEPT !.pc = "dec_len", !.op = "decrypt",
                                     !.eng = e, !.arg = input]]
    /\ UNCHANGED <<target_endian, engines, sealed, last>>

\* The length check placed after the key derivation.
DecryptCheckLenAfterKey(c) ==
    /\ calls[c].pc = "dec_len"
    /\ calls' = [calls EXCEPT
                    ![c].key = generate_key(target_endian, engines[calls[c].eng]),
                    ![c].steps = calls[c].steps \o <<"key", "len">>,
                    ![c].ret = IF Len(calls[c].arg) < NonceLen
                               THEN Err(MalformedPayload) ELSE calls[c].ret,
                    ![c].pc = IF Len(calls[c].arg) < NonceLen THEN "done" ELSE "dec_split"]
    /\ UNCHANGED <<target_endian, engines, sealed, last>>

\* if encrypted.len() < 12 { return Err("Ciphertext too short to contain nonce"); }
DecryptCheckLen(c) ==
    /\ calls[c].pc = "dec_len"
    /\ calls' = [calls EXCEPT
                    ![c].steps = Did(c, "len"),
                    ![c].ret = IF Len(calls[c].arg) < NonceLen
                               THEN Err(MalformedPayload) ELSE calls[c].ret,
                    ![c].pc = IF Len(calls[c].arg) < NonceLen THEN "done" ELSE "dec_split"]
    /\ UNCHANGED <<target_endian, engines, sealed, last>>

\* let (nonce_bytes, ciphertext) = encrypted.split_at(12);
DecryptSplit(c) ==
    /\ calls[c].pc = "dec_split"
    /\ calls' = [calls EXCEPT
                    ![c].nonce_bytes = SubSeq(calls[c].arg, 1, NonceLen),
                    ![c].ciphertext = SubSeq(calls[c].arg, NonceLen + 1, Len(calls[c].arg)),
                    ![c].steps = Did(c, "split"),
                    ![c].pc = "dec_key"]
    /\ UNCHANGED <<target_endian, engines, sealed, last>>

\* let key = self.generate_key(); let cipher = ChaCha20Poly1305::new(..);
DecryptDeriveKey(c) ==
    /\ calls[c].pc = "dec_key"
    /\ calls' = [calls EXCEPT ![c].key = generate_key(target_endian, engines[calls[c].eng]),
                              ![c].steps = Did(c, "key"),
                              ![c].pc = "dec_open"]
    /\ UNCHANGED <<target_endian, engines, sealed, last>>

\* let plaintext = cipher.decrypt(nonce, ciphertext).map_err(|_| "Decryption failed")?;
\* Ok(plaintext)
DecryptOpen(c) ==
    /\ calls[c].pc = "dec_open"
    /\ LET plaintext == AeadDecrypt(calls[c].key, calls[c].nonce_bytes, calls[c].ciphertext)
       IN  calls' = [calls EXCEPT
                        ![c].ret = IF plaintext.ok THEN Ok(plaintext.val)
                                   ELSE Err(AuthenticationFailed),
                        ![c].steps = Did(c, "aead"),
                        ![c].pc = "done"]
    /\ UNCHANGED <<target_endian, engines, sealed, last>>

\* The caller takes the result and is free to call again.
Return(c) ==
    /\ calls[c].pc = "done"
    /\ calls' = [calls EXCEPT ![c] = IdleCall]
    /\ UNCHANGED <<target_endian, engines, sealed, last>>

\* The plaintext of the interleaved callers: the longest of Msgs.
StepMsgs == {SubSeq(Text, 1, MaxLen)}

\* The payloads engine 1 seals, one per nonce.
StepPayloads == {encrypt(target_endian, engines[1], m, n) : m \in StepMsgs, n \in NonceVals}

\* p with the last bit of its tag inverted, p cut inside its ciphertext, and
\* p cut inside its nonce.
DamagedOf(p) ==
    { [p EXCEPT ![Len(p)] = FlipBit(p[Len(p)], 0)],
      SubSeq(p, 1, NonceLen + 1),
      SubSeq(p, 1, NonceLen - 1) }

StepInputs ==
    StepPayloads \cup DamagedOf(encrypt(target_endian, engines[1], SubSeq(Text, 1, MaxLen),
                                        [i \in 1..NonceLen |-> 0]))

Step(c, inputs) ==
    \/ \E e \in EngineIds, data \in StepMsgs : CallEncrypt(c, e, data)
    \/ EncryptDeriveKey(c)
    \/ \E nonce \in NonceVals : EncryptFillNonce(c, nonce)
    \/ EncryptSeal(c)
    \/ EncryptReturn(c)
    \/ \E e \in EngineIds, input \in inputs : CallDecrypt(c, e, input)
    \/ DecryptCheckLen(c)
    \/ DecryptSplit(c)
    \/ DecryptDeriveKey(c)
    \/ DecryptOpen(c)
    \/ Return(c)

NextSteps == \E c \in Callers : Step(c, StepInputs)

SpecSteps == InitSteps /\ [][NextSteps]_vars

(***************************************************************************)
(* One caller, statement by statement, with every short input.             *)
(***************************************************************************)
InitCall == InitWith(Endians, EngineParams)

NextCall == Step(1, StepInputs \cup ShortInputs)

SpecCall == InitCall /\ [][NextCall]_vars

(***************************************************************************)
(* Properties.                                                             *)
(***************************************************************************)
IsDecrypt(r) == r.op = "decrypt"

\* The engine that sealed the payload r's input was taken from.
Sealer(r) == engines[sealed[r.src].eng]

\* C1: decrypt of a payload encrypt returned, on an engine built from the
\* same Parameter Set, returns Ok of the plaintext that was sealed, byte for
\* byte, whatever the plaintext (the empty one included) and the nonce.
RoundTrip ==
    \A k \in 1..Len(last) :
        LET r == last[k]
        IN  (IsDecrypt(r) /\ r.how = "intact" /\ engines[r.eng] = Sealer(r))
                => r.ret = Ok(sealed[r.src].data)

\* An empty plaintext sealed by one instance and opened by another instance
\* built from the same Parameter Set.
RoundTripWitness ==
    \E k \in 1..Len(last) :
        LET r == last[k]
        IN  /\ IsDecrypt(r) /\ r.how = "intact"
            /\ r.eng # sealed[r.src].eng
            /\ engines[r.eng] = Sealer(r)
            /\ sealed[r.src].data = <<>>
            /\ r.ret.ok

\* C2: decrypt of a sealed payload with exactly one bit inverted (in the
\* nonce, the ciphertext or the tag), on an engine with the sealer's
\* Parameter Set, fails with "Decryption failed": not with the short-input
\* error and not with Ok of any plaintext.
TamperDetected ==
    \A k \in 1..Len(last) :
        LET r == last[k]
        IN  (IsDecrypt(r) /\ r.how = "flipped" /\ engines[r.eng] = Sealer(r))
                => r.ret = Err(AuthenticationFailed)

\* A payload with a bit of its ciphertext inverted was rejected by the
\* engine that sealed it.
TamperWitness ==
    \E k \in 1..Len(last) :
        LET r == last[k]
        IN  /\ IsDecrypt(r) /\ r.how = "flipped"
            /\ r.eng = sealed[r.src].eng
            /\ \E j \in (NonceLen + 1)..(Len(r.arg) - TagLen) : r.arg[j] # sealed[r.src].out[j]
            /\ r.ret.err = AuthenticationFailed

\* C3: decrypt of an input shorter than 12 bytes (the empty one included)
\* returns the short-input error having executed the length check only: no
\* split, no key derivation, no AEAD call; and that error differs from
\* "Decryption failed".
ShortRejected ==
    \A c \in Callers :
        (calls[c].pc = "done" /\ calls[c].op = "decrypt" /\ Len(calls[c].arg) < NonceLen)
            => /\ calls[c].ret = Err(MalformedPayload)
               /\ calls[c].steps = <<"len">>
               /\ calls[c].key = <<>>
               /\ calls[c].nonce_bytes = <<>>
               /\ calls[c].ciphertext = <<>>
               /\ MalformedPayload # AuthenticationFailed

\* decrypt of the empty input returned the short-input error.
ShortWitness ==
    \E c \in Callers :
        /\ calls[c].pc = "done" /\ calls[c].op = "decrypt"
        /\ calls[c].arg = <<>>
        /\ calls[c].ret.err = MalformedPayload

\* C4: no two encrypt calls on one engine use the same nonce, and two calls
\* on the same plaintext return different payloads.
NonceFresh ==
    \A i, j \in 1..Len(sealed) :
        (i < j /\ sealed[i].eng = sealed[j].eng)
            => /\ sealed[i].nonce # sealed[j].nonce
               /\ (sealed[i].data = sealed[j].data => sealed[i].out # sealed[j].out)

\* C5: decrypt, on an engine whose Parameter Set differs from the sealer's
\* in at least one field, of a payload encrypt returned fails with
\* "Decryption failed" and returns no plaintext bytes.
MismatchRejected ==
    \A k \in 1..Len(last) :
        LET r == last[k]
        IN  (IsDecrypt(r) /\ r.how = "intact" /\ engines[r.eng] # Sealer(r))
                => (r.ret = Err(AuthenticationFailed) /\ r.ret.val = <<>>)

\* A payload sealed by engine 1 was rejected by engine 2, which differs from
\* engine 1 in strength only.
MismatchWitness ==
    \E k \in 1..Len(last) :
        LET r == last[k]
        IN  /\ IsDecrypt(r) /\ r.how = "intact" /\ r.eng = 2
            /\ engines[2] # engines[1]
            /\ [engines[2] EXCEPT !.strength = engines[1].strength] = engines[1]
            /\ r.ret.err = AuthenticationFailed

\* The fields in which two Parameter Sets differ.
DiffFields(p, q) ==
    {f \in {"point.x", "point.y", "point.z", "axis.x", "axis.y", "axis.z",
            "iterations", "strength"} :
        CASE f = "point.x"    -> p.point.x # q.point.x
          [] f = "point.y"    -> p.point.y # q.point.y
          [] f = "point.z"    -> p.point.z # q.point.z
          [] f = "axis.x"     -> p.rotation_axis.x # q.rotation_axis.x
          [] f = "axis.y"     -> p.rotation_axis.y # q.rotation_axis.y
          [] f = "axis.z"     -> p.rotation_axis.z # q.rotation_axis.z
          [] f = "iterations" -> p.iterations # q.iterations
          [] f = "strength"   -> p.strength # q.strength}

\* C6: the hash input has 60 bytes and is an injective encoding of the
\* Parameter Set, and two Parameter Sets that differ in the bit pattern of
\* one field (-0.0 against 0.0 and two NaN patterns included) have
\* different keys: the key an encrypt call on engine 1 derived is not the
\* key of engine 2.
KeySensitive ==
    /\ \A e \in EngineIds : Len(HashInput(target_endian, engines[e])) = 60
    /\ engines[1] # engines[2]
        => HashInput(target_endian, engines[1]) # HashInput(target_endian, engines[2])
    /\ Cardinality(DiffFields(engines[1], engines[2])) = 1
        => /\ generate_key(target_endian, engines[1]) # generate_key(target_endian, engines[2])
           /\ \A i \in 1..Len(sealed) :
                  sealed[i].key # generate_key(target_endian, engines[3 - sealed[i].eng])

\* Engine 1 has sealed a payload, and engine 2 differs from it only in
\* rotation_axis.x, which is -0.0 instead of 0.0.
KeySensitiveWitness ==
    /\ Len(sealed) = 1
    /\ DiffFields(engines[1], engines[2]) = {"axis.x"}
    /\ engines[1].rotation_axis.x = PosZero
    /\ engines[2].rotation_axis.x = NegZero

\* C7: no call changes an engine's fields, so the key any earlier encrypt
\* call derived is the key generate_key returns now, on that engine and on
\* every engine built from the same Parameter Set.
KeyStable ==
    [][ /\ engines' = engines
        /\ \A i \in 1..Len(sealed') : \A e \in EngineIds :
              engines'[e] = engines'[sealed'[i].eng]
                  => sealed'[i].key = generate_key(target_endian', engines'[e]) ]_vars

\* Two encrypt calls on one engine, then a decrypt that failed.
KeyStableWitness ==
    /\ Len(sealed) >= 2
    /\ sealed[1].eng = sealed[2].eng
    /\ \E k \in 1..Len(last) : IsDecrypt(last[k]) /\ ~last[k].ret.ok

StreamVariant ==
    /\ \A i \in 1..Len(sealed) : Len(sealed[i].out) = Len(sealed[i].data)
    /\ \A k \in 1..Len(last) :
          IsDecrypt(last[k])
              => (last[k].ret.ok /\ Len(last[k].ret.val) = Len(last[k].arg))

\* C9, amended: the pair is the authenticated design.  encrypt returns 28
\* bytes more than it is given, starting with the nonce of the call;
\* decrypt fails with the short-input error exactly on inputs shorter than
\* 12 bytes, and otherwise fails with "Decryption failed" or returns 28
\* bytes fewer than it is given.
AuthenticatedVariant ==
    /\ \A i \in 1..Len(sealed) :
          /\ Len(sealed[i].out) = Len(sealed[i].data) + NonceLen + TagLen
          /\ SubSeq(sealed[i].out, 1, NonceLen) = sealed[i].nonce
    /\ \A k \in 1..Len(last) :
          LET r == last[k]
          IN  IsDecrypt(r)
                => /\ (Len(r.arg) < NonceLen) <=> (r.ret = Err(MalformedPayload))
                   /\ Len(r.arg) >= NonceLen
                        => \/ r.ret = Err(AuthenticationFailed)
                           \/ /\ r.ret.ok
                              /\ Len(r.ret.val) = Len(r.arg) - NonceLen - TagLen

\* decrypt failed on an input of full payload length.
AuthenticatedWitness ==
    \E k \in 1..Len(last) :
        /\ IsDecrypt(last[k])
        /\ Len(last[k].arg) >= NonceLen + TagLen
        /\ last[k].ret = Err(AuthenticationFailed)

\* C10: the payload encrypt returns has 12 + len(m) + 16 bytes: the nonce of
\* the call, then the AEAD ciphertext with its tag.  So it has at least 28
\* bytes and decrypt never answers it with the short-input error.
PayloadLayout ==
    /\ \A i \in 1..Len(sealed) :
          LET s == sealed[i]
          IN  /\ Len(s.out) = NonceLen + Len(s.data) + TagLen
              /\ Len(s.out) >= 28
              /\ SubSeq(s.out, 1, NonceLen) = s.nonce
              /\ SubSeq(s.out, NonceLen + 1, Len(s.out)) = AeadEncrypt(s.key, s.nonce, s.data)
    /\ \A k \in 1..Len(last) :
          (IsDecrypt(last[k]) /\ last[k].how = "intact")
              => last[k].ret.err # MalformedPayload

\* A payload of a longest plaintext went through decrypt's length check and
\* was rejected by the tag check of an engine with other parameters.
PayloadLayoutWitness ==
    \E k \in 1..Len(last) :
        LET r == last[k]
        IN  /\ IsDecrypt(r) /\ r.how = "intact"
            /\ Len(sealed[r.src].data) = MaxLen
            /\ r.ret.err = AuthenticationFailed

====
